---- MODULE Spec2Model ----
(***************************************************************************)
(* Task API (cliffdoyle/task-api): HTTP handlers -> task service ->        *)
(* SQL repository.  The table, its SERIAL sequence and the database clock  *)
(* are the shared state; every HTTP request runs on a worker of its own.   *)
(* A request is one atomic step, except PUT, whose service call makes two  *)
(* separate gateway calls (fetch-by-id, then update) between which other   *)
(* requests can run.                                                       *)
(***************************************************************************)
EXTENDS Integers, Sequences, FiniteSets, TLC

\* ------------------------------------------------------------------ bounds
MaxId == 2          \* ids the SERIAL sequence hands out before the model stops inserting
MaxTime == 2        \* values of the database clock NOW()
MaxRequests == 2    \* HTTP requests served in one behaviour
NumWorkers == 2     \* requests that can be in flight at once

Workers == 1..NumWorkers

\* ------------------------------------------------- net/http status codes
StatusOK == 200
StatusCreated == 201
StatusNoContent == 204
StatusBadRequest == 400
StatusNotFound == 404
StatusInternalServerError == 500

\* ------------------------------------------------------------ input sets
\* request bodies: ok is FALSE for a body json.Decode rejects
CreateTaskRequests ==
  [ok : {TRUE}, Title : {"", "t1"}, Description : {"", "d1"}]
    \cup {[ok |-> FALSE, Title |-> "", Description |-> ""]}

\* each field alone, none, and all three with an accepted and with a
\* rejected status
UpdateTaskRequests ==
  {[ok |-> TRUE, Title |-> "", Description |-> "", Status |-> ""],
   [ok |-> TRUE, Title |-> "t2", Description |-> "", Status |-> ""],
   [ok |-> TRUE, Title |-> "", Description |-> "d2", Status |-> ""],
   [ok |-> TRUE, Title |-> "", Description |-> "", Status |-> "completed"],
   [ok |-> TRUE, Title |-> "", Description |-> "", Status |-> "bogus"],
   [ok |-> TRUE, Title |-> "t2", Description |-> "d2", Status |-> "completed"],
   [ok |-> TRUE, Title |-> "t2", Description |-> "d2", Status |-> "bogus"],
   [ok |-> FALSE, Title |-> "", Description |-> "", Status |-> ""]}

\* the {id} path segment, one character per element
PathIds == {<<"1">>, <<"2">>, <<"3">>, <<"0">>, <<"-", "1">>, <<"x">>}

\* ---------------------------------------------------------------- models
\* models.Task; time.Time is a clock reading, 0 the zero time
ZeroTask ==
  [ID |-> 0, Title |-> "", Description |-> "", Status |-> "",
   CreatedAt |-> 0, UpdatedAt |-> 0]

ZeroCreateRequest == [ok |-> TRUE, Title |-> "", Description |-> ""]

ZeroUpdateRequest == [ok |-> TRUE, Title |-> "", Description |-> "", Status |-> ""]

\* a *models.Task is <<>> (nil) or <<t>>
NilTask == <<>>

\* ---------------------------------------------------------------- errors
\* An error value is its Unwrap chain, outermost first; each link carries
\* its Error() text and the package-level variable it is ("" for a value
\* made on the spot).  nil is the empty chain.
NilError == <<>>

ErrorsNew(text) == <<[msg |-> text, sentinel |-> ""]>>

\* fmt.Errorf(prefix + "%v", err): the text of err without its chain
ErrorfW_FormatsWithV(prefix, err) == <<[msg |-> prefix \o err[1].msg, sentinel |-> ""]>>

\* fmt.Errorf(prefix + "%w", err)
ErrorfW(prefix, err) == <<[msg |-> prefix \o err[1].msg, sentinel |-> ""]>> \o err

ErrorText(err) == err[1].msg

\* errors.Is(err, target), target a package-level variable: some link of
\* err's chain is that variable
ErrorsIs(err, target) ==
  \E i \in 1..Len(err) : err[i].sentinel # "" /\ err[i].sentinel = target[1].sentinel

ErrTaskNotFound == <<[msg |-> "task not found", sentinel |-> "repository.ErrTaskNotFound"]>>

SqlErrNoRows == <<[msg |-> "sql: no rows in result set", sentinel |-> "sql.ErrNoRows"]>>

\* any failure of the driver or the connection
ErrBadConn == <<[msg |-> "driver: bad connection", sentinel |-> "driver.ErrBadConn"]>>

\* ---------------------------------------------------------- strconv.Atoi
DigitChars == {"0", "1", "2", "3", "4", "5", "6", "7", "8", "9"}

DigitVal(c) ==
  CASE c = "0" -> 0 [] c = "1" -> 1 [] c = "2" -> 2 [] c = "3" -> 3 [] c = "4" -> 4
    [] c = "5" -> 5 [] c = "6" -> 6 [] c = "7" -> 7 [] c = "8" -> 8 [] c = "9" -> 9

RECURSIVE DecimalValue(_)
DecimalValue(ds) ==
  IF ds = <<>> THEN 0
  ELSE 10 * DecimalValue(SubSeq(ds, 1, Len(ds) - 1)) + DigitVal(ds[Len(ds)])

Atoi(s) ==
  LET signed == Len(s) > 0 /\ s[1] \in {"+", "-"}
      ds == IF signed THEN Tail(s) ELSE s
  IN IF ds = <<>> \/ \E i \in 1..Len(ds) : ds[i] \notin DigitChars
       THEN [ok |-> FALSE, n |-> 0]
       ELSE [ok |-> TRUE,
             n |-> IF signed /\ s[1] = "-" THEN 0 - DecimalValue(ds) ELSE DecimalValue(ds)]

\* ------------------------------------------------------------- repository
\* The tasks table is a set of rows; seq is the last value of the SERIAL
\* sequence behind tasks.id; clk is what NOW() returns.  dbFail says that the
\* statement fails in the driver.  Every operation returns the table after
\* the statement and out, the kind of outcome: "ok", "notfound" or "error".
RowsWithId(tbl, id) == {r \in tbl : r.ID = id}

\* Create with an id column that gives out the same value again
RepoCreate_SequenceNotAdvanced(tbl, sq, clk, task, dbFail) ==
  IF dbFail
    THEN [err |-> ErrBadConn, out |-> "error", task |-> task, tasks |-> tbl, seq |-> sq]
    ELSE LET row == [task EXCEPT !.ID = sq + 1, !.CreatedAt = clk, !.UpdatedAt = clk]
         IN [err |-> NilError, out |-> "ok", task |-> row,
             tasks |-> tbl \cup {row}, seq |-> sq]

\* taskRepository.Create: INSERT ... RETURNING id, created_at, updated_at
RepoCreate(tbl, sq, clk, task, dbFail) ==
  IF dbFail
    THEN [err |-> ErrBadConn, out |-> "error", task |-> task, tasks |-> tbl, seq |-> sq]
    ELSE LET row == [task EXCEPT !.ID = sq + 1, !.CreatedAt = clk, !.UpdatedAt = clk]
         IN [err |-> NilError, out |-> "ok", task |-> row,
             tasks |-> tbl \cup {row}, seq |-> sq + 1]

\* GetByID without its WHERE clause: the first row of the table is scanned
RepoGetByID_NoWhereClause(tbl, id, dbFail) ==
  IF dbFail
    THEN [err |-> ErrBadConn, out |-> "error", task |-> NilTask]
    ELSE IF tbl = {}
      THEN [err |-> ErrTaskNotFound, out |-> "notfound", task |-> NilTask]
      ELSE [err |-> NilError, out |-> "ok", task |-> <<CHOOSE r \in tbl : TRUE>>]

\* taskRepository.GetByID: SELECT ... WHERE id = $1
RepoGetByID(tbl, id, dbFail) ==
  IF dbFail
    THEN [err |-> ErrBadConn, out |-> "error", task |-> NilTask]
    ELSE IF RowsWithId(tbl, id) = {}
      THEN [err |-> ErrTaskNotFound, out |-> "notfound", task |-> NilTask]
      ELSE [err |-> NilError, out |-> "ok",
            task |-> <<CHOOSE r \in RowsWithId(tbl, id) : TRUE>>]

\* Update as an upsert: a task whose row is gone is inserted again
RepoUpdate_Upserts(tbl, clk, task, dbFail) ==
  LET rows == RowsWithId(tbl, task.ID)
  IN IF dbFail
       THEN [err |-> ErrBadConn, out |-> "error", task |-> task, tasks |-> tbl]
       ELSE IF rows = {}
         THEN [err |-> NilError, out |-> "ok",
               task |-> [task EXCEPT !.UpdatedAt = clk],
               tasks |-> tbl \cup {[task EXCEPT !.UpdatedAt = clk]}]
         ELSE [err |-> NilError, out |-> "ok",
               task |-> [task EXCEPT !.UpdatedAt = clk],
               tasks |-> (tbl \ rows) \cup
                  {[r EXCEPT !.Title = task.Title, !.Description = task.Description,
                             !.Status = task.Status, !.UpdatedAt = clk] : r \in rows}]

\* Update leaving updated_at as it is
RepoUpdate_KeepsUpdatedAt(tbl, clk, task, dbFail) ==
  LET rows == RowsWithId(tbl, task.ID)
  IN IF dbFail
       THEN [err |-> ErrBadConn, out |-> "error", task |-> task, tasks |-> tbl]
       ELSE IF rows = {}
         THEN [err |-> SqlErrNoRows, out |-> "notfound", task |-> task, tasks |-> tbl]
         ELSE [err |-> NilError, out |-> "ok",
               task |-> [task EXCEPT !.UpdatedAt = (CHOOSE r \in rows : TRUE).UpdatedAt],
               tasks |-> (tbl \ rows) \cup
                  {[r EXCEPT !.Title = task.Title, !.Description = task.Description,
                             !.Status = task.Status] : r \in rows}]

\* Update setting created_at as well as updated_at to NOW()
RepoUpdate_SetsCreatedAt(tbl, clk, task, dbFail) ==
  LET rows == RowsWithId(tbl, task.ID)
  IN IF dbFail
       THEN [err |-> ErrBadConn, out |-> "error", task |-> task, tasks |-> tbl]
       ELSE IF rows = {}
         THEN [err |-> SqlErrNoRows, out |-> "notfound", task |-> task, tasks |-> tbl]
         ELSE [err |-> NilError, out |-> "ok",
               task |-> [task EXCEPT !.UpdatedAt = clk],
               tasks |-> (tbl \ rows) \cup
                  {[r EXCEPT !.Title = task.Title, !.Description = task.Description,
                             !.Status = task.Status, !.CreatedAt = clk,
                             !.UpdatedAt = clk] : r \in rows}]

\* Update without its WHERE clause: every row of the table is written
RepoUpdate_NoWhereClause(tbl, clk, task, dbFail) ==
  LET rows == RowsWithId(tbl, task.ID)
  IN IF dbFail
       THEN [err |-> ErrBadConn, out |-> "error", task |-> task, tasks |-> tbl]
       ELSE IF rows = {}
         THEN [err |-> SqlErrNoRows, out |-> "notfound", task |-> task, tasks |-> tbl]
         ELSE [err |-> NilError, out |-> "ok",
               task |-> [task EXCEPT !.UpdatedAt = clk],
               tasks |->
                  {[r EXCEPT !.Title = task.Title, !.Description = task.Description,
                             !.Status = task.Status, !.UpdatedAt = clk] : r \in tbl}]

\* taskRepository.Update: UPDATE ... WHERE id = $4 RETURNING updated_at
RepoUpdate(tbl, clk, task, dbFail) ==
  LET rows == RowsWithId(tbl, task.ID)
  IN IF dbFail
       THEN [err |-> ErrBadConn, out |-> "error", task |-> task, tasks |-> tbl]
       ELSE IF rows = {}
         THEN [err |-> SqlErrNoRows, out |-> "notfound", task |-> task, tasks |-> tbl]
         ELSE [err |-> NilError, out |-> "ok",
               task |-> [task EXCEPT !.UpdatedAt = clk],
               tasks |-> (tbl \ rows) \cup
                  {[r EXCEPT !.Title = task.Title, !.Description = task.Description,
                             !.Status = task.Status, !.UpdatedAt = clk] : r \in rows}]

\* Delete without its WHERE clause: a delete that finds its row empties
\* the table
RepoDelete_NoWhereClause(tbl, id, dbFail) ==
  IF dbFail
    THEN [err |-> ErrBadConn, out |-> "error", tasks |-> tbl]
    ELSE IF RowsWithId(tbl, id) = {}
      THEN [err |-> ErrorsNew("task with ID " \o ToString(id) \o " not found for deletion"),
            out |-> "notfound", tasks |-> tbl]
      ELSE [err |-> NilError, out |-> "ok", tasks |-> {}]

\* Delete without its rowsAffected check
RepoDelete_IgnoresRowsAffected(tbl, id, dbFail) ==
  IF dbFail
    THEN [err |-> ErrBadConn, out |-> "error", tasks |-> tbl]
    ELSE [err |-> NilError, out |-> "ok", tasks |-> tbl \ RowsWithId(tbl, id)]

\* taskRepository.Delete: DELETE FROM tasks WHERE id = $1
RepoDelete(tbl, id, dbFail) ==
  IF dbFail
    THEN [err |-> ErrBadConn, out |-> "error", tasks |-> tbl]
    ELSE IF RowsWithId(tbl, id) = {}
      THEN [err |-> ErrorsNew("task with ID " \o ToString(id) \o " not found for deletion"),
            out |-> "notfound", tasks |-> tbl]
      ELSE [err |-> NilError, out |-> "ok", tasks |-> tbl \ RowsWithId(tbl, id)]

\* the row orders ORDER BY created_at ASC can produce
CreatedAtDescOrders_Ascending(tbl) ==
  {s \in [1..Cardinality(tbl) -> tbl] :
     /\ \A i, j \in 1..Cardinality(tbl) : i # j => s[i] # s[j]
     /\ \A i, j \in 1..Cardinality(tbl) : i < j => s[i].CreatedAt <= s[j].CreatedAt}

\* the row orders ORDER BY created_at DESC can produce: ties come in any order
CreatedAtDescOrders(tbl) ==
  {s \in [1..Cardinality(tbl) -> tbl] :
     /\ \A i, j \in 1..Cardinality(tbl) : i # j => s[i] # s[j]
     /\ \A i, j \in 1..Cardinality(tbl) : i < j => s[i].CreatedAt >= s[j].CreatedAt}

\* taskRepository.GetAll, the database returning the rows in order rows
RepoGetAll(tbl, rows, dbFail) ==
  IF dbFail
    THEN [err |-> ErrBadConn, out |-> "error", list |-> <<>>]
    ELSE [err |-> NilError, out |-> "ok", list |-> rows]

\* a call of the repository as the service sees it: the method, the kind of
\* outcome and the error value returned
Call(name, res) == [op |-> name, out |-> res.out, err |-> res.err]

\* ---------------------------------------------------------------- service
\* A service result carries the returned task and error, the table and the
\* sequence after the call, and calls, the gateway operations the call made.

\* CreateTask without its title check
SvcCreateTask_NoTitleCheck(tbl, sq, clk, req, dbFail) ==
  LET task == [ZeroTask EXCEPT !.Title = req.Title,
                               !.Description = req.Description,
                               !.Status = "pending"]
      r == RepoCreate(tbl, sq, clk, task, dbFail)
  IN IF r.err # NilError
       THEN [task |-> NilTask,
             err |-> ErrorfW("failed to create task in repository: ", r.err),
             tasks |-> r.tasks, seq |-> r.seq, calls |-> <<Call("Create", r)>>]
       ELSE [task |-> <<r.task>>, err |-> NilError,
             tasks |-> r.tasks, seq |-> r.seq, calls |-> <<Call("Create", r)>>]

\* CreateTask returning the task as it was before the insert filled it in
SvcCreateTask_ReturnsUnsavedTask(tbl, sq, clk, req, dbFail) ==
  IF req.Title = ""
    THEN [task |-> NilTask, err |-> ErrorsNew("title is required"),
          tasks |-> tbl, seq |-> sq, calls |-> <<>>]
    ELSE LET task == [ZeroTask EXCEPT !.Title = req.Title,
                                      !.Description = req.Description,
                                      !.Status = "pending"]
             r == RepoCreate(tbl, sq, clk, task, dbFail)
         IN IF r.err # NilError
              THEN [task |-> NilTask,
                    err |-> ErrorfW("failed to create task in repository: ", r.err),
                    tasks |-> r.tasks, seq |-> r.seq, calls |-> <<Call("Create", r)>>]
              ELSE [task |-> <<task>>, err |-> NilError,
                    tasks |-> r.tasks, seq |-> r.seq, calls |-> <<Call("Create", r)>>]

\* taskService.CreateTask
SvcCreateTask(tbl, sq, clk, req, dbFail) ==
  IF req.Title = ""
    THEN [task |-> NilTask, err |-> ErrorsNew("title is required"),
          tasks |-> tbl, seq |-> sq, calls |-> <<>>]
    ELSE LET task == [ZeroTask EXCEPT !.Title = req.Title,
                                      !.Description = req.Description,
                                      !.Status = "pending"]
             r == RepoCreate(tbl, sq, clk, task, dbFail)
         IN IF r.err # NilError
              THEN [task |-> NilTask,
                    err |-> ErrorfW("failed to create task in repository: ", r.err),
                    tasks |-> r.tasks, seq |-> r.seq, calls |-> <<Call("Create", r)>>]
              ELSE [task |-> <<r.task>>, err |-> NilError,
                    tasks |-> r.tasks, seq |-> r.seq, calls |-> <<Call("Create", r)>>]

\* GetTask rejecting only negative ids
SvcGetTask_NegativeOnly(tbl, id, dbFail) ==
  IF id < 0
    THEN [task |-> NilTask, err |-> ErrorsNew("invalid task ID"), calls |-> <<>>]
    ELSE LET r == RepoGetByID(tbl, id, dbFail)
         IN IF r.err # NilError
              THEN [task |-> NilTask,
                    err |-> ErrorfW("failed to get task from repository: ", r.err),
                    calls |-> <<Call("GetByID", r)>>]
              ELSE [task |-> r.task, err |-> NilError, calls |-> <<Call("GetByID", r)>>]

\* taskService.GetTask
SvcGetTask(tbl, id, dbFail) ==
  IF id <= 0
    THEN [task |-> NilTask, err |-> ErrorsNew("invalid task ID"), calls |-> <<>>]
    ELSE LET r == RepoGetByID(tbl, id, dbFail)
         IN IF r.err # NilError
              THEN [task |-> NilTask,
                    err |-> ErrorfW("failed to get task from repository: ", r.err),
                    calls |-> <<Call("GetByID", r)>>]
              ELSE [task |-> r.task, err |-> NilError, calls |-> <<Call("GetByID", r)>>]

\* taskService.GetAllTasks
SvcGetAllTasks(tbl, rows, dbFail) ==
  LET r == RepoGetAll(tbl, rows, dbFail)
  IN IF r.err # NilError
       THEN [list |-> <<>>,
             err |-> ErrorfW("failed to get all tasks from repository: ", r.err),
             calls |-> <<Call("GetAll", r)>>]
       ELSE [list |-> r.list, err |-> NilError, calls |-> <<Call("GetAll", r)>>]

\* UpdateTask going on to its field updates whatever the fetch returned
SvcUpdateFetch_IgnoresFetchError(tbl, id, dbFail) ==
  IF id <= 0
    THEN [done |-> TRUE, task |-> NilTask, err |-> ErrorsNew("invalid task ID"),
          calls |-> <<>>]
    ELSE LET r == RepoGetByID(tbl, id, dbFail)
         IN IF r.err # NilError
              THEN [done |-> FALSE, task |-> <<[ZeroTask EXCEPT !.ID = id]>>,
                    err |-> NilError, calls |-> <<Call("GetByID", r)>>]
              ELSE [done |-> FALSE, task |-> r.task, err |-> NilError,
                    calls |-> <<Call("GetByID", r)>>]

\* taskService.UpdateTask up to the return of its fetch: the id check and
\* repo.GetByID.  done says that UpdateTask has returned.
SvcUpdateFetch(tbl, id, dbFail) ==
  IF id <= 0
    THEN [done |-> TRUE, task |-> NilTask, err |-> ErrorsNew("invalid task ID"),
          calls |-> <<>>]
    ELSE LET r == RepoGetByID(tbl, id, dbFail)
         IN IF r.err # NilError
              THEN [done |-> TRUE, task |-> NilTask,
                    err |-> ErrorfW("task with ID " \o ToString(id) \o " not found: ", r.err),
                    calls |-> <<Call("GetByID", r)>>]
              ELSE [done |-> FALSE, task |-> r.task, err |-> NilError,
                    calls |-> <<Call("GetByID", r)>>]

ValidStatuses == {"pending", "in_progress", "completed"}

\* the field updates copying the request's title whether empty or not
ApplyUpdates_CopiesTitle(existingTask, req) ==
  LET t1 == [existingTask EXCEPT !.Title = req.Title]
      t2 == IF req.Description # "" THEN [t1 EXCEPT !.Description = req.Description]
                                    ELSE t1
  IN IF req.Status # ""
       THEN IF req.Status \notin ValidStatuses
              THEN [ok |-> FALSE, task |-> t2]
              ELSE [ok |-> TRUE, task |-> [t2 EXCEPT !.Status = req.Status]]
       ELSE [ok |-> TRUE, task |-> t2]

\* the field updates taking any non-empty status
ApplyUpdates_NoStatusCheck(existingTask, req) ==
  LET t1 == IF req.Title # "" THEN [existingTask EXCEPT !.Title = req.Title]
                              ELSE existingTask
      t2 == IF req.Description # "" THEN [t1 EXCEPT !.Description = req.Description]
                                    ELSE t1
  IN IF req.Status # ""
       THEN [ok |-> TRUE, task |-> [t2 EXCEPT !.Status = req.Status]]
       ELSE [ok |-> TRUE, task |-> t2]

\* the field updates copying the request's fields whether empty or not
ApplyUpdates_OverwriteEmpty(existingTask, req) ==
  LET t2 == [existingTask EXCEPT !.Title = req.Title, !.Description = req.Description]
  IN IF req.Status # ""
       THEN IF req.Status \notin ValidStatuses
              THEN [ok |-> FALSE, task |-> t2]
              ELSE [ok |-> TRUE, task |-> [t2 EXCEPT !.Status = req.Status]]
       ELSE [ok |-> TRUE, task |-> t2]

\* taskService.UpdateTask, "Apply updates if fields are provided", on the
\* fetched task; ok is FALSE when the status check returns early
ApplyUpdates(existingTask, req) ==
  LET t1 == IF req.Title # "" THEN [existingTask EXCEPT !.Title = req.Title]
                              ELSE existingTask
      t2 == IF req.Description # "" THEN [t1 EXCEPT !.Description = req.Description]
                                    ELSE t1
  IN IF req.Status # ""
       THEN IF req.Status \notin ValidStatuses
              THEN [ok |-> FALSE, task |-> t2]
              ELSE [ok |-> TRUE, task |-> [t2 EXCEPT !.Status = req.Status]]
       ELSE [ok |-> TRUE, task |-> t2]

\* UpdateTask applying the request to the row stored at the time of the
\* write instead of the task it fetched
SvcUpdateWrite_MergesIntoStoredRow(tbl, clk, existingTask, req, fetchCalls, dbFail) ==
  LET cur == IF RowsWithId(tbl, existingTask.ID) = {}
               THEN existingTask
               ELSE CHOOSE r \in RowsWithId(tbl, existingTask.ID) : TRUE
      a == ApplyUpdates(cur, req)
  IN IF ~a.ok
       THEN [task |-> NilTask, err |-> ErrorsNew("invalid status value"),
             tasks |-> tbl, calls |-> fetchCalls]
       ELSE LET r == RepoUpdate(tbl, clk, a.task, dbFail)
            IN IF r.err # NilError
                 THEN [task |-> NilTask,
                       err |-> ErrorfW("failed to update task in repository: ", r.err),
                       tasks |-> r.tasks,
                       calls |-> Append(fetchCalls, Call("Update", r))]
                 ELSE [task |-> <<r.task>>, err |-> NilError, tasks |-> r.tasks,
                       calls |-> Append(fetchCalls, Call("Update", r))]

\* UpdateTask checking the status only after repo.Update
SvcUpdateWrite_CheckAfterWrite(tbl, clk, existingTask, req, fetchCalls, dbFail) ==
  LET a == ApplyUpdates(existingTask, req)
      r == RepoUpdate(tbl, clk, a.task, dbFail)
  IN IF r.err # NilError
       THEN [task |-> NilTask,
             err |-> ErrorfW("failed to update task in repository: ", r.err),
             tasks |-> r.tasks,
             calls |-> Append(fetchCalls, Call("Update", r))]
       ELSE IF ~a.ok
         THEN [task |-> NilTask, err |-> ErrorsNew("invalid status value"),
               tasks |-> r.tasks, calls |-> Append(fetchCalls, Call("Update", r))]
         ELSE [task |-> <<r.task>>, err |-> NilError, tasks |-> r.tasks,
               calls |-> Append(fetchCalls, Call("Update", r))]

\* taskService.UpdateTask from the return of its fetch: the field updates,
\* the status check and repo.Update
SvcUpdateWrite(tbl, clk, existingTask, req, fetchCalls, dbFail) ==
  LET a == ApplyUpdates(existingTask, req)
  IN IF ~a.ok
       THEN [task |-> NilTask, err |-> ErrorsNew("invalid status value"),
             tasks |-> tbl, calls |-> fetchCalls]
       ELSE LET r == RepoUpdate(tbl, clk, a.task, dbFail)
            IN IF r.err # NilError
                 THEN [task |-> NilTask,
                       err |-> ErrorfW("failed to update task in repository: ", r.err),
                       tasks |-> r.tasks,
                       calls |-> Append(fetchCalls, Call("Update", r))]
                 ELSE [task |-> <<r.task>>, err |-> NilError, tasks |-> r.tasks,
                       calls |-> Append(fetchCalls, Call("Update", r))]

\* DeleteTask checking the id only after repo.Delete
SvcDeleteTask_CheckAfterDelete(tbl, id, dbFail) ==
  LET r == RepoDelete(tbl, id, dbFail)
  IN IF id <= 0
       THEN [err |-> ErrorsNew("invalid task ID"), tasks |-> r.tasks,
             calls |-> <<Call("Delete", r)>>]
       ELSE IF r.err # NilError
         THEN [err |-> ErrorfW("failed to delete task from repository: ", r.err),
               tasks |-> r.tasks, calls |-> <<Call("Delete", r)>>]
         ELSE [err |-> NilError, tasks |-> r.tasks, calls |-> <<Call("Delete", r)>>]

\* taskService.DeleteTask
SvcDeleteTask(tbl, id, dbFail) ==
  IF id <= 0
    THEN [err |-> ErrorsNew("invalid task ID"), tasks |-> tbl, calls |-> <<>>]
    ELSE LET r == RepoDelete(tbl, id, dbFail)
         IN IF r.err # NilError
              THEN [err |-> ErrorfW("failed to delete task from repository: ", r.err),
                    tasks |-> r.tasks, calls |-> <<Call("Delete", r)>>]
              ELSE [err |-> NilError, tasks |-> r.tasks, calls |-> <<Call("Delete", r)>>]

\* --------------------------------------------------------------- handlers
\* What a handler writes for a service result: the status code and, for
\* http.Error, the message.
HttpError(text, status) == [code |-> status, msg |-> text]

HttpJSON(status) == [code |-> status, msg |-> ""]

\* TaskHandler.CreateTask after the body is decoded
RespondCreateTask(err) ==
  IF err # NilError
    THEN HttpError("failed to create task: " \o ErrorText(err), StatusInternalServerError)
    ELSE HttpJSON(StatusCreated)

\* TaskHandler.GetTask after the id is parsed
RespondGetTask(id, err) ==
  IF err # NilError
    THEN IF ErrorText(err) = "task with ID " \o ToString(id) \o " not found"
           THEN HttpError(ErrorText(err), StatusNotFound)
           ELSE HttpError("failed to retrieve task: " \o ErrorText(err),
                          StatusInternalServerError)
    ELSE HttpJSON(StatusOK)

\* TaskHandler.GetAllTasks
RespondGetAllTasks(err) ==
  IF err # NilError
    THEN HttpError("failed to retrieve tasks: " \o ErrorText(err), StatusInternalServerError)
    ELSE HttpJSON(StatusOK)

\* TaskHandler.UpdateTask after the id is parsed and the body decoded
RespondUpdateTask(id, err) ==
  IF err # NilError
    THEN IF \/ ErrorText(err) = "task with ID " \o ToString(id)
                                   \o " not found: sql: no rows in result set"
            \/ ErrorText(err) = "task with ID " \o ToString(id) \o " not found"
           THEN HttpError("task not found", StatusNotFound)
           ELSE IF ErrorText(err) = "invalid status value"
             THEN HttpError(ErrorText(err), StatusBadRequest)
             ELSE HttpError("failed to update task: " \o ErrorText(err),
                            StatusInternalServerError)
    ELSE HttpJSON(StatusOK)

\* TaskHandler.DeleteTask after the id is parsed
RespondDeleteTask(id, err) ==
  IF err # NilError
    THEN IF ErrorText(err) = "task with ID " \o ToString(id) \o " not found for deletion"
           THEN HttpError(ErrorText(err), StatusNotFound)
           ELSE HttpError("failed to delete task: " \o ErrorText(err),
                          StatusInternalServerError)
    ELSE HttpJSON(StatusNoContent)

\* ------------------------------------------------------------------ state
VARIABLES
  tasks,    \* the rows of the tasks table
  seq,      \* last value of the SERIAL sequence of tasks.id
  now,      \* the database clock when a statement last read NOW()
  pc,       \* per worker: "idle", or "update" inside UpdateTask after its fetch
  loc,      \* per worker in "update": id, req, existingTask and the calls so far
  last,     \* the request that completed most recently, with its outcome
  nreq      \* requests started

vars == <<tasks, seq, now, pc, loc, last, nreq>>

ZeroLoc == [id |-> 0, req |-> ZeroUpdateRequest, existingTask |-> ZeroTask, calls |-> <<>>]

\* the record of a completed request: the handler (op), whether the service
\* was called (svc: the path id parsed and the body decoded), the service's
\* arguments (id, and create, the request of CreateTask) and results, and
\* the response; replaced is the rows the request's UPDATE statement wrote
\* over, as they were before it
Completed(op, svc, id, create, resp, task, list, err, calls) ==
  [op |-> op, svc |-> svc, id |-> id, create |-> create,
   code |-> resp.code, msg |-> resp.msg,
   task |-> task, list |-> list, err |-> err, calls |-> calls, replaced |-> {}]

NoRequest ==
  Completed("none", FALSE, 0, ZeroCreateRequest, [code |-> 0, msg |-> ""],
            NilTask, <<>>, NilError, <<>>)

\* a response written before the service is called
Rejected(op, id, resp) ==
  Completed(op, FALSE, id, ZeroCreateRequest, resp, NilTask, <<>>, NilError, <<>>)

\* Tables the server can find when it starts: what earlier create and
\* update requests left in the database.
StoredTask1 ==
  [ID |-> 1, Title |-> "t1", Description |-> "d1", Status |-> "pending",
   CreatedAt |-> 1, UpdatedAt |-> 1]

StoredTask2 ==
  [ID |-> 2, Title |-> "t2", Description |-> "", Status |-> "completed",
   CreatedAt |-> 1, UpdatedAt |-> 1]

Databases ==
  {[tasks |-> {}, seq |-> 0],
   [tasks |-> {StoredTask1}, seq |-> 1],
   [tasks |-> {StoredTask1, StoredTask2}, seq |-> 2]}

Init ==
  /\ \E db \in Databases : tasks = db.tasks /\ seq = db.seq
  /\ now = 1
  /\ pc = [w \in Workers |-> "idle"]
  /\ loc = [w \in Workers |-> ZeroLoc]
  /\ last = NoRequest
  /\ nreq = 0

\* a request is taken by the first free worker
Accept(w) ==
  /\ pc[w] = "idle"
  /\ \A v \in Workers : v < w => pc[v] # "idle"
  /\ nreq < MaxRequests
  /\ nreq' = nreq + 1

\* what NOW() can return to the next statement that reads it: the clock
\* does not run backwards
ClockReadings == now..MaxTime

\* the statement of gateway operation name ran, and with it its NOW()
Ran(name, calls) == \E i \in 1..Len(calls) : calls[i].op = name /\ calls[i].out # "error"

\* POST /api/tasks
HandleCreateTask(w, req, clk, dbFail) ==
  /\ Accept(w)
  /\ IF ~req.ok
       THEN /\ last' = Rejected("CreateTask", 0,
                                HttpError("invalid request body", StatusBadRequest))
            /\ UNCHANGED <<tasks, seq, now>>
       ELSE LET res == SvcCreateTask(tasks, seq, clk, req, dbFail)
            IN /\ res.seq <= MaxId
               /\ tasks' = res.tasks
               /\ seq' = res.seq
               /\ now' = IF Ran("Create", res.calls) THEN clk ELSE now
               /\ last' = Completed("CreateTask", TRUE, 0, req,
                             RespondCreateTask(res.err), res.task, <<>>, res.err, res.calls)
  /\ UNCHANGED <<pc, loc>>

\* GET /api/tasks/{id}
HandleGetTask(w, idStr, dbFail) ==
  /\ Accept(w)
  /\ LET a == Atoi(idStr)
     IN IF ~a.ok
          THEN last' = Rejected("GetTask", 0,
                                HttpError("invalid task ID format", StatusBadRequest))
          ELSE LET res == SvcGetTask(tasks, a.n, dbFail)
               IN last' = Completed("GetTask", TRUE, a.n, ZeroCreateRequest,
                            RespondGetTask(a.n, res.err), res.task, <<>>, res.err, res.calls)
  /\ UNCHANGED <<tasks, seq, now, pc, loc>>

\* GET /api/tasks
HandleGetAllTasks(w, rows, dbFail) ==
  /\ Accept(w)
  /\ LET res == SvcGetAllTasks(tasks, rows, dbFail)
     IN last' = Completed("GetAllTasks", TRUE, 0, ZeroCreateRequest,
                  RespondGetAllTasks(res.err), NilTask, res.list, res.err, res.calls)
  /\ UNCHANGED <<tasks, seq, now, pc, loc>>

\* PUT /api/tasks/{id}, until UpdateTask's fetch has returned
HandleUpdateTaskFetch(w, idStr, req, dbFail) ==
  /\ Accept(w)
  /\ LET a == Atoi(idStr)
     IN IF ~a.ok
          THEN /\ last' = Rejected("UpdateTask", 0,
                             HttpError("invalid task ID format", StatusBadRequest))
               /\ UNCHANGED <<pc, loc>>
          ELSE IF ~req.ok
            THEN /\ last' = Rejected("UpdateTask", a.n,
                               HttpError("invalid request body", StatusBadRequest))
                 /\ UNCHANGED <<pc, loc>>
            ELSE LET res == SvcUpdateFetch(tasks, a.n, dbFail)
                 IN IF res.done
                      THEN /\ last' = Completed("UpdateTask", TRUE, a.n, ZeroCreateRequest,
                                        RespondUpdateTask(a.n, res.err),
                                        res.task, <<>>, res.err, res.calls)
                           /\ UNCHANGED <<pc, loc>>
                      ELSE /\ pc' = [pc EXCEPT ![w] = "update"]
                           /\ loc' = [loc EXCEPT ![w] =
                                        [id |-> a.n, req |-> req,
                                         existingTask |-> res.task[1],
                                         calls |-> res.calls]]
                           /\ UNCHANGED last
  /\ UNCHANGED <<tasks, seq, now>>

\* PUT /api/tasks/{id}, from the return of UpdateTask's fetch to the response
HandleUpdateTaskWrite(w, clk, dbFail) ==
  /\ pc[w] = "update"
  /\ LET res == SvcUpdateWrite(tasks, clk, loc[w].existingTask, loc[w].req,
                               loc[w].calls, dbFail)
     IN /\ tasks' = res.tasks
        /\ now' = IF Ran("Update", res.calls) THEN clk ELSE now
        /\ last' = [Completed("UpdateTask", TRUE, loc[w].id, ZeroCreateRequest,
                      RespondUpdateTask(loc[w].id, res.err),
                      res.task, <<>>, res.err, res.calls)
                      EXCEPT !.replaced =
                        IF res.err = NilError
                          THEN RowsWithId(tasks, loc[w].existingTask.ID) ELSE {}]
  /\ pc' = [pc EXCEPT ![w] = "idle"]
  /\ loc' = [loc EXCEPT ![w] = ZeroLoc]
  /\ UNCHANGED <<seq, nreq>>

\* DELETE /api/tasks/{id}
HandleDeleteTask(w, idStr, dbFail) ==
  /\ Accept(w)
  /\ LET a == Atoi(idStr)
     IN IF ~a.ok
          THEN /\ last' = Rejected("DeleteTask", 0,
                             HttpError("invalid task ID format", StatusBadRequest))
               /\ UNCHANGED tasks
          ELSE LET res == SvcDeleteTask(tasks, a.n, dbFail)
               IN /\ tasks' = res.tasks
                  /\ last' = Completed("DeleteTask", TRUE, a.n, ZeroCreateRequest,
                               RespondDeleteTask(a.n, res.err),
                               NilTask, <<>>, res.err, res.calls)
  /\ UNCHANGED <<seq, now, pc, loc>>

Next ==
  \/ \E w \in Workers, req \in CreateTaskRequests, clk \in ClockReadings, dbFail \in BOOLEAN :
       HandleCreateTask(w, req, clk, dbFail)
  \/ \E w \in Workers, idStr \in PathIds, dbFail \in BOOLEAN :
       HandleGetTask(w, idStr, dbFail)
  \/ \E w \in Workers, rows \in CreatedAtDescOrders(tasks), dbFail \in BOOLEAN :
       HandleGetAllTasks(w, rows, dbFail)
  \/ \E w \in Workers, idStr \in PathIds, req \in UpdateTaskRequests, dbFail \in BOOLEAN :
       HandleUpdateTaskFetch(w, idStr, req, dbFail)
  \/ \E w \in Workers, clk \in ClockReadings, dbFail \in BOOLEAN :
       HandleUpdateTaskWrite(w, clk, dbFail)
  \/ \E w \in Workers, idStr \in PathIds, dbFail \in BOOLEAN :
       HandleDeleteTask(w, idStr, dbFail)

Spec == Init /\ [][Next]_vars

TypeOK ==
  /\ seq \in 0..MaxId
  /\ now \in 1..MaxTime
  /\ nreq \in 0..MaxRequests
  /\ \A w \in Workers : pc[w] \in {"idle", "update"}
  /\ \A t \in tasks : t.ID \in 1..seq

\* ----------------------------------------------------------------- claims
\* The service's validation errors: made by errors.New in the service and
\* returned unwrapped.
ValidationTexts == {"title is required", "invalid task ID", "invalid status value"}

IsValidationError(err) == Len(err) = 1 /\ err[1].msg \in ValidationTexts

GetByIDNotFound == [op |-> "GetByID", out |-> "notfound", err |-> ErrTaskNotFound]

GetByIDOk == [op |-> "GetByID", out |-> "ok", err |-> NilError]

DeleteNotFound(id) ==
  [op |-> "Delete", out |-> "notfound",
   err |-> ErrorsNew("task with ID " \o ToString(id) \o " not found for deletion")]

CreateOk == [op |-> "Create", out |-> "ok", err |-> NilError]

GatewayError(calls) == \E i \in 1..Len(calls) : calls[i].out = "error"

\* the requests answered so far, and the step that answers one: last' then
\* describes the request answered
Served == nreq - Cardinality({w \in Workers : pc[w] = "update"})

Answers == Served' = Served + 1

\* C1: GET /api/tasks/{id} with id > 0 and no task stored under id (the
\* gateway's fetch-by-id reports not found) answers 404.
C1_GetOfMissingTaskAnswers404 ==
  (/\ last.op = "GetTask" /\ last.svc /\ last.id > 0
   /\ RowsWithId(tasks, last.id) = {}
   /\ last.calls = <<GetByIDNotFound>>)
    => last.code = StatusNotFound

\* C2: DELETE /api/tasks/{id} with id > 0 and no task stored under id (zero
\* rows affected) answers 404, and DELETE answers 500 only when the gateway
\* failed otherwise.
C2_DeleteOfMissingTaskAnswers404 ==
  /\ (/\ last.op = "DeleteTask" /\ last.svc /\ last.id > 0
      /\ RowsWithId(tasks, last.id) = {}
      /\ last.calls = <<DeleteNotFound(last.id)>>)
       => last.code = StatusNotFound
  /\ (last.op = "DeleteTask" /\ last.svc /\ last.id > 0
      /\ last.code = StatusInternalServerError)
       => GatewayError(last.calls)

\* C3: PUT /api/tasks/{id} with id > 0 and no task stored under id answers
\* 404, whatever the request body, never 500.
C3_UpdateOfMissingTaskAnswers404 ==
  (/\ last.op = "UpdateTask" /\ last.svc /\ last.id > 0
   /\ RowsWithId(tasks, last.id) = {}
   /\ last.calls = <<GetByIDNotFound>>)
    => last.code = StatusNotFound

\* C4: a ValidationError of the service is answered with a 4xx status.
C4_ValidationErrorAnswers4xx ==
  (last.svc /\ IsValidationError(last.err))
    => (last.code >= 400 /\ last.code < 500)

\* C5 as claimed: a service call that ends in a ValidationError has invoked
\* no gateway operation at all.
C5_ValidationBeforeAnyStoreAccess ==
  (last.svc /\ IsValidationError(last.err)) => last.calls = <<>>

\* C5 amended: a service call that ends in a ValidationError has invoked no
\* gateway operation, except that UpdateTask's "invalid status value" comes
\* after its one, successful fetch-by-id; no insert, fetch-all, update or
\* delete is ever invoked by such a call.
C5_ValidationBeforeAnyStoreWrite ==
  (last.svc /\ IsValidationError(last.err))
    => IF last.op = "UpdateTask" /\ ErrorText(last.err) = "invalid status value"
         THEN last.calls = <<GetByIDOk>>
         ELSE last.calls = <<>>

C5_Witness ==
  /\ last.op = "UpdateTask" /\ last.svc
  /\ IsValidationError(last.err)
  /\ ErrorText(last.err) = "invalid status value"
  /\ last.calls = <<GetByIDOk>>

\* C6: CreateTask with an empty title returns no task and the error "title
\* is required", invokes no gateway operation, and leaves the table and its
\* sequence as they were.
C6_EmptyTitleRejected ==
  [][(/\ Answers
      /\ last'.op = "CreateTask" /\ last'.svc
      /\ last'.create.Title = "")
       => /\ last'.task = NilTask
          /\ last'.err = ErrorsNew("title is required")
          /\ last'.calls = <<>>
          /\ tasks' = tasks
          /\ seq' = seq]_vars

C6_Witness ==
  /\ last.op = "CreateTask" /\ last.svc /\ last.create.Title = ""
  /\ last.err = ErrorsNew("title is required")
  /\ tasks # {}

\* C7: CreateTask with a non-empty title whose insert succeeds returns a
\* pending task with the request's title and description and with the id
\* and timestamps the gateway assigned (the next value of the sequence, the
\* reading of the database clock); the row stored under that id is the
\* returned task.
C7_CreatedTaskIsStoredTask ==
  [][(/\ Answers
      /\ last'.op = "CreateTask" /\ last'.svc
      /\ last'.create.Title # ""
      /\ last'.calls = <<CreateOk>>)
       => /\ last'.err = NilError
          /\ Len(last'.task) = 1
          /\ last'.task[1] =
               [ID |-> seq + 1, Title |-> last'.create.Title,
                Description |-> last'.create.Description,
                Status |-> "pending", CreatedAt |-> now', UpdatedAt |-> now']
          /\ now' >= now
          /\ RowsWithId(tasks', seq + 1) = {last'.task[1]}
          /\ tasks' = tasks \cup {last'.task[1]}]_vars

C7_Witness ==
  /\ last.op = "CreateTask" /\ last.err = NilError /\ last.calls = <<CreateOk>>
  /\ Len(last.task) = 1
  /\ last.task[1].ID = 2 /\ last.task[1].Description = "d1"
  /\ last.task[1] \in tasks

\* C8: GetTask, UpdateTask and DeleteTask with id <= 0 fail with "invalid
\* task ID", invoke no gateway operation and leave the table as it was.
C8_NonPositiveIdRejected ==
  [][(/\ Answers
      /\ last'.op \in {"GetTask", "UpdateTask", "DeleteTask"} /\ last'.svc
      /\ last'.id <= 0)
       => /\ last'.err = ErrorsNew("invalid task ID")
          /\ last'.task = NilTask
          /\ last'.calls = <<>>
          /\ tasks' = tasks
          /\ pc' = pc]_vars

C8_Witness ==
  /\ last.op = "DeleteTask" /\ last.svc /\ last.id = 0
  /\ last.err = ErrorsNew("invalid task ID")
  /\ tasks # {}

\* C9: a successful UpdateTask returns, and leaves stored under its id, a
\* task whose title, description and status are the request's where the
\* request's field is non-empty and the fetched task's where it is empty;
\* id and created_at are those of the fetched task.
C9_PartialUpdate ==
  [][\A w \in Workers, clk \in ClockReadings, dbFail \in BOOLEAN :
       (HandleUpdateTaskWrite(w, clk, dbFail) /\ last'.err = NilError)
         => LET old == loc[w].existingTask
                req == loc[w].req
            IN /\ Len(last'.task) = 1
               /\ LET t == last'.task[1]
                  IN /\ t.Title = IF req.Title # "" THEN req.Title ELSE old.Title
                     /\ t.Description = IF req.Description # "" THEN req.Description
                                                               ELSE old.Description
                     /\ t.Status = IF req.Status # "" THEN req.Status ELSE old.Status
                     /\ t.ID = old.ID /\ t.ID = loc[w].id
                     /\ t.CreatedAt = old.CreatedAt
                     /\ RowsWithId(tasks', loc[w].id) = {t}]_vars

C9_Witness ==
  /\ last.op = "UpdateTask" /\ last.err = NilError /\ Len(last.task) = 1
  /\ last.task[1].Title = "t1"
  /\ last.task[1].Description = "d2"
  /\ last.task[1].Status = "pending"
  /\ last.task[1] \in tasks

\* C10: UpdateTask on an existing id with a non-empty status outside
\* pending, in_progress, completed returns no task and "invalid status
\* value" whatever title and description the request carries, does not
\* invoke the gateway's update, and leaves the table as it was.
C10_InvalidStatusLeavesRecord ==
  [][\A w \in Workers, clk \in ClockReadings, dbFail \in BOOLEAN :
       (/\ HandleUpdateTaskWrite(w, clk, dbFail)
        /\ loc[w].req.Status # ""
        /\ loc[w].req.Status \notin {"pending", "in_progress", "completed"})
         => /\ last'.task = NilTask
            /\ last'.err = ErrorsNew("invalid status value")
            /\ \A i \in 1..Len(last'.calls) : last'.calls[i].op # "Update"
            /\ tasks' = tasks]_vars

C10_Witness ==
  /\ last.op = "UpdateTask" /\ last.svc /\ last.id = 1
  /\ last.err = ErrorsNew("invalid status value")
  /\ StoredTask1 \in tasks


\* C11: UpdateTask(id, req) with id > 0 whose fetch-by-id reports not found
\* fails with an error that is ErrTaskNotFound, returns no task, never calls
\* the gateway's update and leaves the table as it was.  In every UpdateTask
\* the gateway's update is called only after a fetch-by-id of the same id
\* succeeded within the same call, and it writes rows of that id only.
C11_UpdateOnlyAfterSuccessfulFetch ==
  [][/\ (/\ Answers
          /\ last'.op = "UpdateTask" /\ last'.svc /\ last'.id > 0
          /\ Len(last'.calls) >= 1 /\ last'.calls[1] = GetByIDNotFound)
           => /\ ErrorsIs(last'.err, ErrTaskNotFound)
              /\ last'.task = NilTask
              /\ last'.calls = <<GetByIDNotFound>>
              /\ tasks' = tasks
     /\ (Answers /\ last'.op = "UpdateTask")
           => /\ \A i \in 1..Len(last'.calls) :
                   last'.calls[i].op = "Update"
                     => /\ i = 2
                        /\ last'.calls[1] = GetByIDOk
                        /\ \E w \in Workers :
                             /\ pc[w] = "update" /\ pc'[w] = "idle"
                             /\ loc[w].id = last'.id
                             /\ loc[w].existingTask.ID = last'.id
              /\ tasks' # tasks
                   => /\ \E i \in 1..Len(last'.calls) : last'.calls[i].op = "Update"
                      /\ \A r \in (tasks \ tasks') \cup (tasks' \ tasks) :
                           r.ID = last'.id
     /\ \A w \in Workers :
          pc'[w] = "update"
            => /\ loc'[w].calls = <<GetByIDOk>>
               /\ loc'[w].existingTask.ID = loc'[w].id]_vars

\* an update of id 2, never stored beside task 1, has been refused as not found
C11_Witness ==
  /\ last.op = "UpdateTask" /\ last.svc /\ last.id = 2
  /\ last.calls = <<GetByIDNotFound>>
  /\ ErrorsIs(last.err, ErrTaskNotFound)
  /\ last.task = NilTask
  /\ tasks = {StoredTask1}


\* C12: a DeleteTask(id) that succeeds leaves no task stored under id, and
\* no later step stores one under an id the sequence has already given out;
\* every DeleteTask(id) that finds no task under such an id fails, with the
\* gateway's "not found for deletion" error unless the driver failed, and
\* leaves the table as it was.
C12_DeleteOfDeletedTaskFails ==
  [][/\ (Answers /\ last'.op = "DeleteTask" /\ last'.svc /\ last'.err = NilError)
           => /\ last'.id \in 1..seq
              /\ RowsWithId(tasks, last'.id) # {}
              /\ RowsWithId(tasks', last'.id) = {}
     /\ \A id \in 1..seq : RowsWithId(tasks, id) = {} => RowsWithId(tasks', id) = {}
     /\ (/\ Answers
          /\ last'.op = "DeleteTask" /\ last'.svc
          /\ last'.id \in 1..seq /\ RowsWithId(tasks, last'.id) = {})
           => /\ last'.err # NilError
              /\ tasks' = tasks
              /\ ~GatewayError(last'.calls)
                   => /\ last'.calls = <<DeleteNotFound(last'.id)>>
                      /\ last'.err = ErrorfW("failed to delete task from repository: ",
                                             DeleteNotFound(last'.id).err)]_vars

\* task 1, the only task ever stored, was deleted by the first request, and
\* the second request's DeleteTask(1) has failed as not found
C12_Witness ==
  /\ seq = 1 /\ tasks = {} /\ nreq = 2
  /\ last.op = "DeleteTask" /\ last.svc /\ last.id = 1
  /\ last.calls = <<DeleteNotFound(1)>>
  /\ last.err # NilError


\* C13: whenever the gateway's fetch-by-id or delete reports not found, the
\* error it returns is the one distinguished value ErrTaskNotFound, which a
\* caller recognises with errors.Is and without reading the message.
C13_NotFoundIsOneDistinguishedValue ==
  \A i \in 1..Len(last.calls) :
    (last.calls[i].op \in {"GetByID", "Delete"} /\ last.calls[i].out = "notfound")
      => /\ ErrorsIs(last.calls[i].err, ErrTaskNotFound)
         /\ ErrorsIs(last.err, ErrTaskNotFound)


\* cause is in the Unwrap chain of err, below its outermost link
WrapsCause(err, cause) ==
  \E j \in 2..Len(err) : SubSeq(err, j, Len(err)) = cause

\* C14: whenever a gateway call made by CreateTask, GetTask, GetAllTasks,
\* UpdateTask or DeleteTask returned an error, the service call returns an
\* error, no task and no list, and the error's Unwrap chain holds the very
\* error the gateway returned under the context the service added.
C14_GatewayErrorIsWrappedAndReturned ==
  \A i \in 1..Len(last.calls) :
    last.calls[i].err # NilError
      => /\ last.err # NilError
         /\ last.task = NilTask
         /\ last.list = <<>>
         /\ WrapsCause(last.err, last.calls[i].err)

\* the task an UpdateTask had fetched was deleted before its write: the
\* gateway's update found no row and the service returned sql.ErrNoRows wrapped
C14_Witness ==
  /\ last.op = "UpdateTask" /\ last.svc
  /\ Len(last.calls) = 2
  /\ last.calls[1] = GetByIDOk
  /\ last.calls[2] = [op |-> "Update", out |-> "notfound", err |-> SqlErrNoRows]
  /\ ErrorsIs(last.err, SqlErrNoRows)
  /\ last.task = NilTask


\* C15: when UpdateTask B writes after another request has changed the row
\* B fetched (fetch(A), fetch(B), write(A), write(B)), B succeeds unless the
\* driver fails or B's status is invalid, and the row stored afterwards is
\* exactly the task B returns: B's fetched task with B's non-empty fields
\* and the time of B's write.  A field B's request leaves empty has the value
\* B fetched, so what A wrote to it is lost.
C15_LastWriterWins ==
  [][\A w \in Workers, clk \in ClockReadings :
       LET id == loc[w].id
           fetched == loc[w].existingTask
           req == loc[w].req
       IN (/\ HandleUpdateTaskWrite(w, clk, FALSE)
           /\ RowsWithId(tasks, id) # {}
           /\ RowsWithId(tasks, id) # {fetched}
           /\ req.Status \in ValidStatuses \cup {""})
            => /\ last'.err = NilError
               /\ last'.task # NilTask
               /\ RowsWithId(tasks', id) = {last'.task[1]}
               /\ last'.replaced = RowsWithId(tasks, id)
               /\ LET t == last'.task[1]
                  IN /\ t.ID = id
                     /\ t.Title = IF req.Title = "" THEN fetched.Title ELSE req.Title
                     /\ t.Description = IF req.Description = "" THEN fetched.Description
                                                                ELSE req.Description
                     /\ t.Status = IF req.Status = "" THEN fetched.Status ELSE req.Status
                     /\ t.CreatedAt = fetched.CreatedAt
                     /\ t.UpdatedAt = clk]_vars

\* both updates of task 1 have succeeded: the second wrote over a row whose
\* title the first had changed to "t2", and the stored title is again the
\* "t1" the second had fetched
C15_Witness ==
  /\ nreq = 2 /\ \A w \in Workers : pc[w] = "idle"
  /\ last.op = "UpdateTask" /\ last.id = 1 /\ last.err = NilError
  /\ \E r \in last.replaced : r.ID = 1 /\ r.Title = "t2" /\ r.UpdatedAt >= 1
  /\ last.task[1].Title = "t1"
  /\ tasks = {last.task[1]}


OnOtherIds(tbl, id) == {r \in tbl : r.ID # id}

\* C16: operations on distinct ids do not interfere.  Every step of a
\* GetTask, UpdateTask or DeleteTask on an id a leaves the rows of every
\* other id and the updates in flight on other ids as they were, and what
\* the step returns and stores under a is what the same step returns and
\* stores on a table holding the rows of a alone.  So under every
\* interleaving the results of the operations on a and the final record of
\* a are those of the operations on a run without the others.
C16_DistinctIdsAreIndependent ==
  [][/\ (Answers /\ last'.op \in {"GetTask", "UpdateTask", "DeleteTask"} /\ last'.svc)
           => LET a == last'.id
                  alone == RowsWithId(tasks, a)
                  dbFail == GatewayError(last'.calls)
              IN /\ OnOtherIds(tasks', a) = OnOtherIds(tasks, a)
                 /\ \A w \in Workers :
                      (pc[w] = "update" /\ loc[w].id # a)
                        => pc'[w] = "update" /\ loc'[w] = loc[w]
                 /\ last'.op = "GetTask"
                      => LET r == SvcGetTask(alone, a, dbFail)
                         IN /\ last'.task = r.task /\ last'.err = r.err
                            /\ tasks' = tasks
                 /\ last'.op = "DeleteTask"
                      => LET r == SvcDeleteTask(alone, a, dbFail)
                         IN /\ last'.err = r.err
                            /\ RowsWithId(tasks', a) = r.tasks
                 /\ (last'.op = "UpdateTask" /\ pc' = pc)
                      => LET r == SvcUpdateFetch(alone, a, dbFail)
                         IN /\ r.done
                            /\ last'.task = r.task /\ last'.err = r.err
                            /\ tasks' = tasks
     /\ \A w \in Workers :
          (pc[w] = "idle" /\ pc'[w] = "update")
            => LET a == loc'[w].id
                   r == SvcUpdateFetch(RowsWithId(tasks, a), a, FALSE)
               IN /\ ~r.done
                  /\ loc'[w].existingTask = r.task[1]
                  /\ tasks' = tasks
                  /\ \A v \in Workers \ {w} : pc'[v] = pc[v] /\ loc'[v] = loc[v]
     /\ \A w \in Workers, clk \in ClockReadings, dbFail \in BOOLEAN :
          HandleUpdateTaskWrite(w, clk, dbFail)
            => LET a == loc[w].id
                   r == SvcUpdateWrite(RowsWithId(tasks, a), clk, loc[w].existingTask,
                                       loc[w].req, loc[w].calls, dbFail)
               IN /\ last'.task = r.task /\ last'.err = r.err
                  /\ RowsWithId(tasks', a) = r.tasks]_vars

\* an update of task 1 has fetched, written and succeeded while an update of
\* task 2 is between its fetch and its write; task 2 is stored as it was
C16_Witness ==
  /\ \E w \in Workers :
       pc[w] = "update" /\ loc[w].id = 2 /\ loc[w].existingTask = StoredTask2
  /\ last.op = "UpdateTask" /\ last.id = 1 /\ last.err = NilError
  /\ last.replaced = {StoredTask1}
  /\ last.task[1] \in tasks /\ last.task[1] # StoredTask1
  /\ StoredTask2 \in tasks


\* C17: in every reachable state the status of every stored task is one of
\* pending, in_progress and completed.
C17_StoredStatusIsValid ==
  \A t \in tasks : t.Status \in ValidStatuses

\* an UpdateTask has set the status of task 1 to completed and a CreateTask
\* after it has stored task 2 as pending
C17_Witness ==
  /\ last.op = "CreateTask" /\ last.calls = <<CreateOk>>
  /\ last.task[1].ID = 2 /\ last.task[1].Status = "pending"
  /\ last.task[1] \in tasks
  /\ \E t \in tasks : t.ID = 1 /\ t.Status = "completed" /\ t # StoredTask1


Ids(tbl) == {r.ID : r \in tbl}

DistinctPositiveIds(tbl) ==
  /\ \A t \in tbl : t.ID > 0
  /\ \A t1, t2 \in tbl : t1.ID = t2.ID => t1 = t2

\* C18: stored tasks have pairwise distinct positive ids before and after
\* every step.  The only id a step adds is the next value of the sequence,
\* given to the task a CreateTask stores, and the only id a step removes is
\* the one of a successful DeleteTask; an UpdateTask leaves the set of ids
\* as it is, writes only the row of the id it was called with, which is the
\* id of the task it fetched, and returns a task with that id.
C18_IdsAreDistinctAndStable ==
  [][/\ DistinctPositiveIds(tasks) /\ DistinctPositiveIds(tasks')
     /\ Ids(tasks') \subseteq Ids(tasks) \cup {seq + 1}
     /\ Ids(tasks') # Ids(tasks)
          => /\ Answers
             /\ \/ /\ last'.op = "CreateTask" /\ last'.err = NilError
                   /\ seq' = seq + 1
                   /\ last'.task[1].ID = seq + 1
                   /\ tasks' = tasks \cup {last'.task[1]}
                \/ /\ last'.op = "DeleteTask" /\ last'.err = NilError
                   /\ Ids(tasks') = Ids(tasks) \ {last'.id}
                   /\ tasks' = OnOtherIds(tasks, last'.id)
     /\ \A w \in Workers, clk \in ClockReadings, dbFail \in BOOLEAN :
          HandleUpdateTaskWrite(w, clk, dbFail)
            => /\ loc[w].existingTask.ID = loc[w].id
               /\ last'.id = loc[w].id
               /\ Ids(tasks') = Ids(tasks)
               /\ OnOtherIds(tasks', last'.id) = OnOtherIds(tasks, last'.id)
               /\ last'.err = NilError
                    => /\ last'.task[1].ID = last'.id
                       /\ \A r \in last'.replaced : r.ID = last'.id
                       /\ RowsWithId(tasks', last'.id) = {last'.task[1]}]_vars

\* task 2, stored by a CreateTask beside task 1, has been updated: the task
\* returned has id 2 and is the one row stored under 2
C18_Witness ==
  /\ seq = 2 /\ StoredTask1 \in tasks
  /\ last.op = "UpdateTask" /\ last.id = 2 /\ last.err = NilError
  /\ \E r \in last.replaced : r.ID = 2 /\ r.Title = "t1"
  /\ last.task[1].ID = 2
  /\ RowsWithId(tasks, 2) = {last.task[1]}


UpdatedNotBeforeCreated(tbl) == \A t \in tbl : t.UpdatedAt >= t.CreatedAt

\* C19: before and after every step each stored task has updated_at >=
\* created_at; a step leaves the created_at of every task that stays stored
\* as it was, whatever updates interleave, and a task a step stores under a
\* new id has the time of that step as its created_at; the task an
\* UpdateTask returns carries the stored created_at.
C19_CreatedAtIsKept ==
  [][/\ UpdatedNotBeforeCreated(tasks) /\ UpdatedNotBeforeCreated(tasks')
     /\ \A r \in tasks, t \in tasks' : r.ID = t.ID => t.CreatedAt = r.CreatedAt
     /\ \A t \in tasks' : t.ID \notin Ids(tasks) => t.CreatedAt = now'
     /\ (Answers /\ last'.op = "UpdateTask" /\ last'.svc /\ last'.err = NilError)
          => /\ \A r \in last'.replaced : last'.task[1].CreatedAt = r.CreatedAt
             /\ last'.task[1].UpdatedAt >= last'.task[1].CreatedAt]_vars

\* two updates of task 1, created at time 1, have interleaved and written at
\* time 2: the second wrote over the first's row, and the stored and the
\* returned created_at are still 1
C19_Witness ==
  /\ last.op = "UpdateTask" /\ last.id = 1 /\ last.err = NilError
  /\ \E r \in last.replaced :
       r.Title = "t2" /\ r.CreatedAt = 1 /\ r.UpdatedAt = 2
  /\ last.task[1].Title = "t1"
  /\ last.task[1].CreatedAt = 1 /\ last.task[1].UpdatedAt = 2
  /\ last.task[1] \in tasks


\* the step answers an UpdateTask that succeeded
UpdateSucceeds == Answers /\ last'.op = "UpdateTask" /\ last'.svc /\ last'.err = NilError

C21_StoredTitleIsNonEmpty ==
  \A t \in tasks : t.Title # ""

\* an UpdateTask with an empty title has changed the description of task 1
\* and left its title, and a CreateTask with an empty title has been refused
C21_Witness ==
  /\ last.op = "CreateTask" /\ last.svc /\ last.create.Title = ""
  /\ last.err = ErrorsNew("title is required")
  /\ \E t \in tasks : t.ID = 1 /\ t.Title = "t1" /\ t.Description = "d2"
  /\ \A t \in tasks : t.Title # ""


GetAnswers ==
  /\ Answers
  /\ last'.op = "GetTask" /\ last'.svc /\ last'.id > 0
  /\ ~GatewayError(last'.calls)

\* C23: a successful CreateTask or UpdateTask leaves the task it returns
\* as the one row stored under its id; only an UpdateTask's write or a
\* DeleteTask on an id changes the row stored under it; a GetTask(i) that
\* finds a row under i succeeds and returns that row.  So a GetTask(i) that
\* is answered next after a successful CreateTask that returned id i returns
\* a task with the created id, title, description and status, and one
\* answered next after a successful UpdateTask(i, req) returns the task the
\* update returned.
C23_GetReturnsWhatWasWritten ==
  [][/\ (/\ Answers
          /\ last'.op \in {"CreateTask", "UpdateTask"} /\ last'.svc
          /\ last'.err = NilError)
           => /\ last'.task # NilTask
              /\ RowsWithId(tasks', last'.task[1].ID) = {last'.task[1]}
     /\ \A id \in Ids(tasks) :
          RowsWithId(tasks', id) # RowsWithId(tasks, id)
            => /\ Answers
               /\ last'.op \in {"UpdateTask", "DeleteTask"}
               /\ last'.id = id /\ last'.err = NilError
     /\ (GetAnswers /\ RowsWithId(tasks, last'.id) # {})
           => /\ last'.err = NilError
              /\ last'.task # NilTask
              /\ RowsWithId(tasks, last'.id) = {last'.task[1]}
              /\ last'.code = StatusOK
     /\ (/\ GetAnswers
          /\ last.op = "CreateTask" /\ last.svc /\ last.err = NilError
          /\ last'.id = last.task[1].ID)
           => /\ last'.err = NilError
              /\ last'.task # NilTask
              /\ last'.task[1].ID = last.task[1].ID
              /\ last'.task[1].Title = last.create.Title
              /\ last'.task[1].Title = last.task[1].Title
              /\ last'.task[1].Description = last.task[1].Description
              /\ last'.task[1].Status = last.task[1].Status
     /\ (/\ GetAnswers
          /\ last.op = "UpdateTask" /\ last.svc /\ last.err = NilError
          /\ last'.id = last.id)
           => /\ last'.err = NilError
              /\ last'.task = last.task]_vars

\* the first request created task 2, with title "t1", beside task 1; the
\* second, GetTask(2), has returned the created task
C23_Witness ==
  /\ nreq = 2 /\ seq = 2 /\ StoredTask1 \in tasks
  /\ last.op = "GetTask" /\ last.svc /\ last.id = 2 /\ last.err = NilError
  /\ last.task[1].ID = 2 /\ last.task[1].Title = "t1"
  /\ last.task[1].Status = "pending"
  /\ last.task[1] \in tasks


\* C24: no step of an UpdateTask adds a row.  When the row an UpdateTask
\* fetched is gone at the time of its write, the gateway's update fails,
\* with sql.ErrNoRows unless the driver failed, the UpdateTask returns no
\* task and an error that wraps the gateway's error, and the table stays
\* as it was, with no row under the id.
C24_UpdateNeverCreates ==
  [][/\ (Answers /\ last'.op = "UpdateTask")
           => /\ Ids(tasks') = Ids(tasks)
              /\ Cardinality(tasks') = Cardinality(tasks)
     /\ \A w \in Workers :
          (pc[w] = "idle" /\ pc'[w] = "update") => tasks' = tasks
     /\ \A w \in Workers, clk \in ClockReadings, dbFail \in BOOLEAN :
          (/\ HandleUpdateTaskWrite(w, clk, dbFail)
           /\ RowsWithId(tasks, loc[w].id) = {}
           /\ loc[w].req.Status \in ValidStatuses \cup {""})
            => /\ Len(last'.calls) = 2
               /\ last'.calls[2].op = "Update"
               /\ last'.calls[2].err = IF dbFail THEN ErrBadConn ELSE SqlErrNoRows
               /\ last'.err # NilError
               /\ WrapsCause(last'.err, last'.calls[2].err)
               /\ last'.task = NilTask
               /\ tasks' = tasks
               /\ RowsWithId(tasks', loc[w].id) = {}]_vars

\* task 1, the only task stored, was deleted after an UpdateTask(1) had
\* fetched it; the update has failed on sql.ErrNoRows and the table is empty
C24_Witness ==
  /\ nreq = 2 /\ seq = 1 /\ tasks = {}
  /\ \A w \in Workers : pc[w] = "idle"
  /\ last.op = "UpdateTask" /\ last.svc /\ last.id = 1
  /\ Len(last.calls) = 2 /\ last.calls[1] = GetByIDOk
  /\ last.calls[2].err = SqlErrNoRows
  /\ WrapsCause(last.err, SqlErrNoRows)
  /\ last.task = NilTask


\* C25: a step of GetTask or GetAllTasks leaves the table as it was; so
\* does every step that answers a request refused before the service was
\* called or a service operation that returned an error, and every fetch of
\* an UpdateTask; a step that answers a successful UpdateTask(id, req) or
\* DeleteTask(id) leaves every row stored under another id as it was.
C25_Frame ==
  [][/\ (Answers /\ last'.op \in {"GetTask", "GetAllTasks"}) => tasks' = tasks
     /\ (Answers /\ (~last'.svc \/ last'.err # NilError)) => tasks' = tasks
     /\ ~Answers => tasks' = tasks
     /\ (/\ Answers
          /\ last'.op \in {"UpdateTask", "DeleteTask"} /\ last'.svc
          /\ last'.err = NilError)
           => /\ OnOtherIds(tasks', last'.id) = OnOtherIds(tasks, last'.id)
              /\ RowsWithId(tasks, last'.id) # {}
              /\ last'.op = "DeleteTask" => RowsWithId(tasks', last'.id) = {}
              /\ last'.op = "UpdateTask" => Cardinality(RowsWithId(tasks', last'.id)) = 1]_vars

\* with tasks 1 and 2 stored, one request has left the table as it was and
\* a DeleteTask(1) has succeeded: task 2 is stored unchanged
C25_Witness ==
  /\ nreq = 2 /\ seq = 2
  /\ last.op = "DeleteTask" /\ last.svc /\ last.id = 1 /\ last.err = NilError
  /\ tasks = {StoredTask2}

====
